---- MODULE Spec2Model ----
(***************************************************************************)
(* Model of supabase-wrappers/src/interface.rs: the Cell value model, its  *)
(* Display and datum codec, Row, Qual::deparse, and the default bodies of  *)
(* the ForeignDataWrapper trait.                                           *)
(*                                                                         *)
(* Strings that are formatted or parsed are sequences of one-character     *)
(* strings; column names, which are only copied, are plain strings.        *)
(***************************************************************************)
EXTENDS Integers, Sequences, FiniteSets, TLC

VARIABLES
    \* ---- Row (interface.rs 156-192)
    cols,        \* Row.cols
    cells,       \* Row.cells
    origCols,    \* cols as they were when the last retain was entered
    origCells,   \* cells as they were when the last retain was entered
    keep,        \* what the predicate returned, call by call, in the last retain
    rowOp,       \* the last Row operation: "new", "push", "retain"
    \* ---- Qual (interface.rs 236-254)
    qual,        \* the Qual deparse is called on
    deparsed,    \* outcome of the last deparse() on qual
    \* ---- Datum codec (interface.rs 81-149)
    heap,        \* palloc'd objects; the object at index i has address 8 * i
    datum,       \* the raw Datum at hand, 8 bytes, least significant first
    datumSrc,    \* the cell datum was encoded from, or RawSrc
    isNull,      \* is_null of the last from_polymorphic_datum call
    typoid,      \* typoid of the last from_polymorphic_datum call
    decoded,     \* outcome of the last from_polymorphic_datum call
    \* ---- ForeignDataWrapper (interface.rs 322-510)
    conn,        \* the connector instance: its rows, scan position and state
    yielded,     \* the rows iter_scan returned since begin_scan, in order
    lastCall,    \* the trait function called last
    lastRet,     \* what the last iter_scan returned
    hostRow,     \* the row the host passes by reference to insert and update
    hostRowid,   \* the rowid cell the host passes to update and delete
    catalog,     \* the catalog argument of the last validator call
    branch       \* the arm the validator's match took

rowVars   == <<cols, cells, origCols, origCells, keep, rowOp>>
qualVars  == <<qual, deparsed>>
codecVars == <<heap, datum, datumSrc, isNull, typoid, decoded>>
fdwVars   == <<conn, yielded, lastCall, lastRet, hostRow, hostRowid, catalog, branch>>
vars      == <<rowVars, qualVars, codecVars, fdwVars>>

-----------------------------------------------------------------------------
(* Bounds *)

MaxRowLen == 3
MaxStrLen == 2
MaxArrayLen == 2
MaxAllocs == 2
MaxRows == 3

-----------------------------------------------------------------------------
(* Cell, interface.rs 31-43.  Option<Cell> is NoneCell or a cell.  The     *)
(* payload of Bool is a boolean; of I8, I16, I32 and Date (days) an        *)
(* integer; of I64 and Timestamp (microseconds) the 8 bytes of the 64-bit  *)
(* integer; of F32 and F64 the bytes of the float; of String a text; of    *)
(* Json a JSON scalar.                                                     *)

Cell(tag, v) == [tag |-> tag, v |-> v]
NoneCell == [tag |-> "None", v |-> 0]

-----------------------------------------------------------------------------
(* Row *)

RowNames == {"id", "name"}
RowCells == {NoneCell, Cell("I32", 1), Cell("Bool", TRUE)}

\* Vec::retain as Row::retain uses it: the closure ignores the element and
\* pulls the next flag from an iterator over the mask; next().unwrap()
\* panics when the mask is exhausted.
RECURSIVE VecRetain(_, _)
VecRetain(v, mask) ==
    IF v = <<>> THEN <<>>
    ELSE IF mask = <<>> THEN "panic"
    ELSE LET rest == VecRetain(Tail(v), Tail(mask))
         IN  IF rest = "panic" THEN "panic"
             ELSE IF Head(mask) THEN <<Head(v)>> \o rest ELSE rest

Min(a, b) == IF a < b THEN a ELSE b

\* self.iter(): cols.iter().zip(cells.iter()), as long as the shorter one
RowIter(cs, ls) == [i \in 1..Min(Len(cs), Len(ls)) |-> <<cs[i], ls[i]>>]

RetainCols(cs, mask) == VecRetain(cs, mask)

RetainCells_Unfiltered(ls, mask) == ls
RetainCells_Reversed(ls, mask) ==
    VecRetain(ls, [i \in 1..Len(mask) |-> mask[Len(mask) + 1 - i]])
RetainCells(ls, mask) == VecRetain(ls, mask)

RowInit ==
    /\ cols = <<>>
    /\ cells = <<>>
    /\ origCols = <<>>
    /\ origCells = <<>>
    /\ keep = <<>>
    /\ rowOp = "new"

\* Row::push(col, cell)
RowPush(col, cell) ==
    /\ Len(cols) < MaxRowLen
    /\ cols' = Append(cols, col)
    /\ cells' = Append(cells, cell)
    /\ origCols' = <<>>
    /\ origCells' = <<>>
    /\ keep' = <<>>
    /\ rowOp' = "push"
    /\ UNCHANGED <<qualVars, codecVars, fdwVars>>

\* Row::retain(f).  f is FnMut: what it returns for each (name, cell) pair it
\* is handed, in order, is any sequence of booleans of the iterator's length.
RowRetain(f) ==
    /\ DOMAIN f = DOMAIN RowIter(cols, cells)
    /\ RetainCols(cols, f) # "panic"
    /\ RetainCells(cells, f) # "panic"
    /\ keep' = f
    /\ origCols' = cols
    /\ origCells' = cells
    /\ cols' = RetainCols(cols, f)
    /\ cells' = RetainCells(cells, f)
    /\ rowOp' = "retain"
    /\ UNCHANGED <<qualVars, codecVars, fdwVars>>

PushStep == \E col \in RowNames, cell \in RowCells : RowPush(col, cell)
RetainStep == \E n \in 0..(MaxRowLen + 1) : \E f \in [1..n -> BOOLEAN] : RowRetain(f)

-----------------------------------------------------------------------------
(* Text *)

\* A text is a sequence of one-character strings.

DigitChar(d) == <<"0", "1", "2", "3", "4", "5", "6", "7", "8", "9">>[d + 1]

\* Decimal digits of n >= 1, most significant first.
RECURSIVE DigitsOfPos(_)
DigitsOfPos(n) ==
    IF n = 0 THEN <<>> ELSE Append(DigitsOfPos(n \div 10), DigitChar(n % 10))

\* Decimal digits of the magnitude of n <= -1 (computed without negating n,
\* so that the minimum of the type has a magnitude).
RECURSIVE DigitsOfNeg(_)
DigitsOfNeg(n) ==
    IF n = 0 THEN <<>>
    ELSE LET d == (10 - (n % 10)) % 10
         IN  Append(DigitsOfNeg((n + d) \div 10), DigitChar(d))

Pow256(k) == <<1, 256, 65536, 16777216>>[k + 1]

\* The two's complement of a signed integer n of at most 32 significant
\* bits, sign-extended to 8 bytes, least significant first.
Int64Bytes(n) ==
    [k \in 1..8 |-> IF k <= 4 THEN (n \div Pow256(k - 1)) % 256
                    ELSE IF n < 0 THEN 255 ELSE 0]

\* The signed value of bytes, least significant first.
RECURSIVE SignedLE(_)
SignedLE(bs) ==
    IF Len(bs) = 1
    THEN IF bs[1] >= 128 THEN bs[1] - 256 ELSE bs[1]
    ELSE bs[1] + 256 * SignedLE(Tail(bs))

\* write!(f, "{}", v) for the integer types of at most 32 bits
FmtInt(n) ==
    IF n = 0 THEN <<"0">>
    ELSE IF n > 0 THEN DigitsOfPos(n)
    ELSE <<"-">> \o DigitsOfNeg(n)

\* write!(f, "{}", v) for i64, carried as its 8 bytes
FmtInt64(bytes) == FmtInt(SignedLE(bytes))

\* write!(f, "{}", v) for bool
FmtBool(b) == IF b THEN <<"t", "r", "u", "e">> ELSE <<"f", "a", "l", "s", "e">>

\* Floats are carried as their IEEE-754 bits, little-endian bytes; "{}" of the
\* floats the model draws from.
F32_1_5 == <<0, 0, 192, 63>>
F32_Neg2 == <<0, 0, 0, 192>>
F64_0_25 == <<0, 0, 0, 0, 0, 0, 208, 63>>
F64_Zero == <<0, 0, 0, 0, 0, 0, 0, 0>>

FmtFloat(bits) ==
    CASE bits = F32_1_5 -> <<"1", ".", "5">>
      [] bits = F32_Neg2 -> <<"-", "2">>
      [] bits = F64_0_25 -> <<"0", ".", "2", "5">>
      [] bits = F64_Zero -> <<"0">>

\* serde_json text of the JSON scalars the model draws from
JsonText(j) ==
    CASE j.jt = "Null" -> <<"n", "u", "l", "l">>
      [] j.jt = "Bool" -> FmtBool(j.jv)
      [] j.jt = "Number" -> FmtInt(j.jv)

JsonNull == [jt |-> "Null", jv |-> 0]
JsonBool(b) == [jt |-> "Bool", jv |-> b]
JsonNumber(n) == [jt |-> "Number", jv |-> n]

\* write!(f, "{:?}", v) of a tuple struct: its name and the Debug of its field
FmtDebug(name, inner) == name \o <<"(">> \o inner \o <<")">>

\* impl fmt::Display for Cell
CellDisplay_NoQuotes(c) ==
    CASE c.tag = "Bool" -> FmtBool(c.v)
      [] c.tag \in {"I8", "I16", "I32"} -> FmtInt(c.v)
      [] c.tag = "I64" -> FmtInt64(c.v)
      [] c.tag \in {"F32", "F64"} -> FmtFloat(c.v)
      [] c.tag = "String" -> c.v
      [] c.tag = "Date" -> FmtDebug(<<"D", "a", "t", "e">>, FmtInt(c.v))
      [] c.tag = "Timestamp" ->
            FmtDebug(<<"T", "i", "m", "e", "s", "t", "a", "m", "p">>, FmtInt64(c.v))
      [] c.tag = "Json" -> FmtDebug(<<"J", "s", "o", "n", "B">>, JsonText(c.v))

CellDisplay(c) ==
    CASE c.tag = "Bool" -> FmtBool(c.v)
      [] c.tag = "I8" -> FmtInt(c.v)
      [] c.tag = "I16" -> FmtInt(c.v)
      [] c.tag = "F32" -> FmtFloat(c.v)
      [] c.tag = "I32" -> FmtInt(c.v)
      [] c.tag = "F64" -> FmtFloat(c.v)
      [] c.tag = "I64" -> FmtInt64(c.v)
      [] c.tag = "String" -> <<"'">> \o c.v \o <<"'">>
      [] c.tag = "Date" -> FmtDebug(<<"D", "a", "t", "e">>, FmtInt(c.v))
      [] c.tag = "Timestamp" ->
            FmtDebug(<<"T", "i", "m", "e", "s", "t", "a", "m", "p">>, FmtInt64(c.v))
      [] c.tag = "Json" -> FmtDebug(<<"J", "s", "o", "n", "B">>, JsonText(c.v))

-----------------------------------------------------------------------------
(* Qual *)

\* Value, interface.rs 196-199
ValueCell(c) == [kind |-> "Cell", cell |-> c, arr |-> <<>>]
ValueArray(a) == [kind |-> "Array", cell |-> NoneCell, arr |-> a]

\* Outcome of a call that returns a String or panics
NotCalled == [kind |-> "NotCalled", s |-> <<>>]
RetString(s) == [kind |-> "String", s |-> s]
Panic == [kind |-> "Panic", s |-> <<>>]

StrAlphabet == {"a", "'"}
Strings == UNION {[1..n -> StrAlphabet] : n \in 0..MaxStrLen}

I8Min == -128
I8Max == 127
I16Min == -32768
I16Max == 32767
I32Min == -2147483647 - 1
I32Max == 2147483647

QualCells ==
    {Cell("Bool", b) : b \in BOOLEAN}
    \cup {Cell("I8", n) : n \in {I8Min, 0, I8Max}}
    \cup {Cell("I16", n) : n \in {I16Min, 105, I16Max}}
    \cup {Cell("I32", n) : n \in {I32Min, -1, 1, 1000, I32Max}}
    \cup {Cell("I64", Int64Bytes(n)) : n \in {-90, 0, 1, I32Max}}
    \cup {Cell("F32", F32_1_5), Cell("F64", F64_0_25)}
    \cup {Cell("String", s) : s \in Strings}
    \cup {Cell("Date", 8035), Cell("Timestamp", Int64Bytes(-1)),
          Cell("Json", JsonNumber(7))}

ArrayCells == {Cell("I64", Int64Bytes(1)), Cell("String", <<"a">>)}
Arrays == UNION {[1..n -> ArrayCells] : n \in 0..MaxArrayLen}

QualFields == {<<"i", "d">>, <<"c", "o", "l">>}
QualOperators == {<<"=">>, <<"i", "s">>}

Quals ==
    [field : QualFields,
     operator : QualOperators,
     value : {ValueCell(c) : c \in QualCells} \cup {ValueArray(a) : a \in Arrays},
     use_or : BOOLEAN]

\* Qual::deparse
QualDeparse_IgnoreUseOr(q) ==
    IF q.value.kind = "Cell"
    THEN RetString(q.field \o <<" ">> \o q.operator \o <<" ">> \o CellDisplay(q.value.cell))
    ELSE Panic

QualDeparse_ArrayEmpty(q) ==
    IF q.use_or \/ q.value.kind = "Array" THEN RetString(<<>>)
    ELSE RetString(q.field \o <<" ">> \o q.operator \o <<" ">> \o CellDisplay(q.value.cell))

QualDeparse(q) ==
    IF q.use_or
    THEN RetString(<<>>)
    ELSE CASE q.value.kind = "Cell" ->
                RetString(q.field \o <<" ">> \o q.operator \o <<" ">>
                          \o CellDisplay(q.value.cell))
           [] q.value.kind = "Array" -> Panic

QualIdle ==
    /\ qual = [field |-> <<>>, operator |-> <<>>, value |-> ValueArray(<<>>),
               use_or |-> TRUE]
    /\ deparsed = NotCalled

QualInit ==
    /\ qual \in Quals
    /\ deparsed = NotCalled

\* qual.deparse()
Deparse ==
    /\ deparsed' = QualDeparse(qual)
    /\ UNCHANGED <<qual, rowVars, codecVars, fdwVars>>

-----------------------------------------------------------------------------
(* Datum codec *)

\* Type identifiers.  PgOid::from(typoid) is BuiltIn(..) for the first two
\* sets, Custom(..) for "Custom" and Invalid for "InvalidOid" (oid 0).
MatchedOids ==
    {"BOOLOID", "CHAROID", "INT2OID", "FLOAT4OID", "INT4OID", "FLOAT8OID",
     "INT8OID", "TEXTOID", "DATEOID", "TIMESTAMPOID", "JSONBOID"}
OtherBuiltInOids == {"VARCHAROID", "NUMERICOID"}
Oids == MatchedOids \cup OtherBuiltInOids \cup {"Custom", "InvalidOid"}

\* <Cell as IntoDatum>::type_oid()
CellTypeOid == "InvalidOid"

\* Datum::from(n) for a signed integer n of at most 32 bits
DatumFromInt(n) == Int64Bytes(n)

\* datum.value() as iN, N = 8 * w <= 32: the low w bytes, as a signed integer
IntFromDatum(d, w) == SignedLE(SubSeq(d, 1, w))

\* bool: Datum::from(v), and datum.value() != 0
DatumFromBool(b) == DatumFromInt(IF b THEN 1 ELSE 0)
BoolFromDatum(d) == d # DatumFromInt(0)

\* f32 / f64: to_bits() zero-extended, and from_bits() of the low bytes
DatumFromBits(bits) == [k \in 1..8 |-> IF k <= Len(bits) THEN bits[k] ELSE 0]
BitsFromDatum(d, w) == SubSeq(d, 1, w)

\* Heap objects: a text varlena holds the bytes of a string, a jsonb varlena
\* holds the document jsonb_in parsed from the serde_json text.
TextBlob(s) == [kind |-> "text", bytes |-> s]
JsonbBlob(s) == [kind |-> "jsonb", bytes |-> s]

PtrDatum(i) == DatumFromInt(8 * i)

\* d points at a live heap object of the kind
ValidPtr(h, d, kind) ==
    \E i \in 1..Len(h) : d = PtrDatum(i) /\ h[i].kind = kind
Deref(h, d) == h[CHOOSE i \in 1..Len(h) : d = PtrDatum(i)]

\* serde_json::from_str of the text jsonb_out prints for a scalar
RECURSIVE ParseDigits(_, _, _)
ParseDigits(ds, acc, sign) ==
    IF ds = <<>> THEN acc
    ELSE ParseDigits(Tail(ds),
                     acc * 10 + sign * (CHOOSE d \in 0..9 : DigitChar(d) = Head(ds)),
                     sign)

JsonParse(text) ==
    CASE text = <<"n", "u", "l", "l">> -> JsonNull
      [] text = <<"t", "r", "u", "e">> -> JsonBool(TRUE)
      [] text = <<"f", "a", "l", "s", "e">> -> JsonBool(FALSE)
      [] OTHER -> IF Head(text) = "-"
                  THEN JsonNumber(ParseDigits(Tail(text), 0, -1))
                  ELSE JsonNumber(ParseDigits(text, 0, 1))

ByRefTags == {"String", "Json"}

\* impl IntoDatum for Cell, into_datum: Some(datum), with the heap after it.
CellIntoDatum(h, c) ==
    CASE c.tag = "Bool" -> [datum |-> DatumFromBool(c.v), heap |-> h]
      [] c.tag = "I8" -> [datum |-> DatumFromInt(c.v), heap |-> h]
      [] c.tag = "I16" -> [datum |-> DatumFromInt(c.v), heap |-> h]
      [] c.tag = "F32" -> [datum |-> DatumFromBits(c.v), heap |-> h]
      [] c.tag = "I32" -> [datum |-> DatumFromInt(c.v), heap |-> h]
      [] c.tag = "F64" -> [datum |-> DatumFromBits(c.v), heap |-> h]
      [] c.tag = "I64" -> [datum |-> c.v, heap |-> h]
      [] c.tag = "String" ->
            [datum |-> PtrDatum(Len(h) + 1), heap |-> Append(h, TextBlob(c.v))]
      [] c.tag = "Date" -> [datum |-> DatumFromInt(c.v), heap |-> h]
      [] c.tag = "Timestamp" -> [datum |-> c.v, heap |-> h]
      [] c.tag = "Json" ->
            [datum |-> PtrDatum(Len(h) + 1),
             heap |-> Append(h, JsonbBlob(JsonText(c.v)))]

\* Outcome of from_polymorphic_datum
NotDecoded == [kind |-> "NotCalled", cell |-> NoneCell]
RetNone == [kind |-> "None", cell |-> NoneCell]
RetSome(c) == [kind |-> "Some", cell |-> c]
Crash == [kind |-> "Crash", cell |-> NoneCell]

CodecStrings == {<<>>, <<"a">>, <<"a", "'">>}
CodecJsons == {JsonNull, JsonBool(TRUE), JsonNumber(-12)}

\* The match on the oid in from_polymorphic_datum: the set of outcomes.
\* Reading a by-reference type through a datum that does not point at an
\* object of that type is undefined behaviour: a crash, or some value.
OidMatch(h, d, t) ==
    CASE t = "BOOLOID" -> {RetSome(Cell("Bool", BoolFromDatum(d)))}
      [] t = "CHAROID" -> {RetSome(Cell("I8", IntFromDatum(d, 1)))}
      [] t = "INT2OID" -> {RetSome(Cell("I16", IntFromDatum(d, 2)))}
      [] t = "FLOAT4OID" -> {RetSome(Cell("F32", BitsFromDatum(d, 4)))}
      [] t = "INT4OID" -> {RetSome(Cell("I32", IntFromDatum(d, 4)))}
      [] t = "FLOAT8OID" -> {RetSome(Cell("F64", BitsFromDatum(d, 8)))}
      [] t = "INT8OID" -> {RetSome(Cell("I64", d))}
      [] t = "TEXTOID" ->
            IF ValidPtr(h, d, "text")
            THEN {RetSome(Cell("String", Deref(h, d).bytes))}
            ELSE {Crash} \cup {RetSome(Cell("String", s)) : s \in CodecStrings}
      [] t = "DATEOID" -> {RetSome(Cell("Date", IntFromDatum(d, 4)))}
      [] t = "TIMESTAMPOID" -> {RetSome(Cell("Timestamp", d))}
      [] t = "JSONBOID" ->
            IF ValidPtr(h, d, "jsonb")
            THEN {RetSome(Cell("Json", JsonParse(Deref(h, d).bytes)))}
            ELSE {Crash} \cup {RetSome(Cell("Json", j)) : j \in CodecJsons}
      [] OTHER -> {RetNone}

\* impl FromDatum for Cell, from_polymorphic_datum
FromPolymorphicDatum_NoNullCheck(h, d, is_null, t) == OidMatch(h, d, t)

FromPolymorphicDatum_Int2AsInt4(h, d, is_null, t) ==
    IF is_null THEN {RetNone}
    ELSE IF t = "INT2OID" THEN {RetSome(Cell("I32", IntFromDatum(d, 4)))}
    ELSE OidMatch(h, d, t)

FromPolymorphicDatum(h, d, is_null, t) ==
    IF is_null THEN {RetNone} ELSE OidMatch(h, d, t)

CodecCells ==
    {Cell("Bool", b) : b \in BOOLEAN}
    \cup {Cell("I8", n) : n \in {I8Min, -1, I8Max}}
    \cup {Cell("I16", n) : n \in {I16Min, 300, I16Max}}
    \cup {Cell("I32", n) : n \in {I32Min, -1, 65536, I32Max}}
    \cup {Cell("I64", Int64Bytes(n)) : n \in {-90, 0}}
    \cup {Cell("I64", <<255, 255, 255, 255, 255, 255, 255, 127>>)}
    \cup {Cell("F32", F32_1_5), Cell("F32", F32_Neg2)}
    \cup {Cell("F64", F64_0_25), Cell("F64", F64_Zero)}
    \cup {Cell("String", s) : s \in CodecStrings}
    \cup {Cell("Date", n) : n \in {-730120, 8035}}
    \cup {Cell("Timestamp", Int64Bytes(n)) : n \in {-1, 694224000}}
    \cup {Cell("Json", j) : j \in CodecJsons}

\* Raw datums that no into_datum of this run produced
RawSrc == [tag |-> "Raw", v |-> 0]
RawDatums == {DatumFromInt(n) : n \in {0, 1, -1, 300, 16}}

CodecIdle ==
    /\ heap = <<>>
    /\ datum = DatumFromInt(0)
    /\ datumSrc = RawSrc
    /\ isNull = TRUE
    /\ typoid = "InvalidOid"
    /\ decoded = NotDecoded

CodecInit == CodecIdle

\* datum = cell.into_datum().unwrap()
Encode(c) ==
    /\ c.tag \in ByRefTags => Len(heap) < MaxAllocs
    /\ datum' = CellIntoDatum(heap, c).datum
    /\ heap' = CellIntoDatum(heap, c).heap
    /\ datumSrc' = c
    /\ decoded' = NotDecoded
    /\ UNCHANGED <<isNull, typoid, rowVars, qualVars, fdwVars>>

\* The host hands over a datum of its own
TakeRaw(d) ==
    /\ datum' = d
    /\ datumSrc' = RawSrc
    /\ decoded' = NotDecoded
    /\ UNCHANGED <<heap, isNull, typoid, rowVars, qualVars, fdwVars>>

\* Cell::from_polymorphic_datum(datum, is_null, t)
Decode(is_null, t) ==
    /\ isNull' = is_null
    /\ typoid' = t
    /\ decoded' \in FromPolymorphicDatum(heap, datum, is_null, t)
    /\ UNCHANGED <<heap, datum, datumSrc, rowVars, qualVars, fdwVars>>

EncodeStep == \E c \in CodecCells : Encode(c)
TakeRawStep == \E d \in RawDatums : TakeRaw(d)
DecodeStep == \E is_null \in BOOLEAN, t \in Oids : Decode(is_null, t)

-----------------------------------------------------------------------------
(* ForeignDataWrapper *)

FOREIGN_DATA_WRAPPER_RELATION_ID == 2328
FOREIGN_SERVER_RELATION_ID == 1417
FOREIGN_TABLE_RELATION_ID_AsServer == FOREIGN_SERVER_RELATION_ID
FOREIGN_TABLE_RELATION_ID == 3118

\* The constants the interface offers to a validator
WellKnownCatalogIds ==
    {FOREIGN_DATA_WRAPPER_RELATION_ID, FOREIGN_SERVER_RELATION_ID,
     FOREIGN_TABLE_RELATION_ID}

\* Option<pg_sys::Oid>
NoOid == [some |-> FALSE, oid |-> 0]
SomeOid(o) == [some |-> TRUE, oid |-> o]

\* The catalogs a host's validator call can name: the foreign data wrapper,
\* foreign server and foreign table catalogs and the user mapping catalog
\* (oid 1418 in the host).
HostCatalogs ==
    {SomeOid(o) : o \in {2328, 1417, 3118, 1418}} \cup {NoOid}

\* The match of the validator documented at the trait's validator function:
\* the first arm whose constant equals the oid.
ValidatorMatch(cat) ==
    IF ~cat.some THEN "none"
    ELSE IF cat.oid = FOREIGN_DATA_WRAPPER_RELATION_ID THEN "wrapper"
    ELSE IF cat.oid = FOREIGN_SERVER_RELATION_ID THEN "server"
    ELSE IF cat.oid = FOREIGN_TABLE_RELATION_ID THEN "table"
    ELSE "default"

\* Row values
MkRow(cs, ls) == [cols |-> cs, cells |-> ls]
DataRow(i) == MkRow(<<"id">>, <<Cell("I64", Int64Bytes(i))>>)

\* The connector's declared data: rows with ids 1..n
DataSet(n) == [i \in 1..n |-> DataRow(i)]

RetNoRow == [some |-> FALSE, row |-> MkRow(<<>>, <<>>)]
RetRow(r) == [some |-> TRUE, row |-> r]

HostRows ==
    {MkRow(<<"id", "name">>, <<Cell("I64", Int64Bytes(10)), Cell("String", <<"a">>)>>),
     MkRow(<<"id", "name">>, <<Cell("I64", Int64Bytes(10)), NoneCell>>)}
HostRowids == {Cell("I64", Int64Bytes(10)), Cell("I32", 7)}

\* ForeignDataWrapper::new(options): the reference connector holds its rows
FdwInit ==
    /\ \E n \in 0..MaxRows :
          conn = [rows |-> DataSet(n), pos |-> 0, state |-> "Uninitialized"]
    /\ yielded = <<>>
    /\ lastCall = "new"
    /\ lastRet = RetNoRow
    /\ hostRow \in HostRows
    /\ hostRowid \in HostRowids
    /\ catalog = NoOid
    /\ branch = "none"

FdwIdle ==
    /\ conn = [rows |-> <<>>, pos |-> 0, state |-> "Uninitialized"]
    /\ yielded = <<>>
    /\ lastCall = "new"
    /\ lastRet = RetNoRow
    /\ hostRow = MkRow(<<>>, <<>>)
    /\ hostRowid = NoneCell
    /\ catalog = NoOid
    /\ branch = "none"

\* begin_scan of the reference connector
BeginScan ==
    /\ conn.state = "Uninitialized"
    /\ conn' = [conn EXCEPT !.state = "Scanning", !.pos = 0]
    /\ yielded' = <<>>
    /\ lastCall' = "begin_scan"
    /\ UNCHANGED <<lastRet, hostRow, hostRowid, catalog, branch,
                   rowVars, qualVars, codecVars>>

\* iter_scan of the reference connector
IterScan ==
    /\ conn.state \in {"Scanning", "Exhausted"}
    /\ IF conn.pos < Len(conn.rows)
       THEN /\ conn' = [conn EXCEPT !.pos = conn.pos + 1, !.state = "Scanning"]
            /\ lastRet' = RetRow(conn.rows[conn.pos + 1])
            /\ yielded' = Append(yielded, conn.rows[conn.pos + 1])
       ELSE /\ conn' = [conn EXCEPT !.state = "Exhausted"]
            /\ lastRet' = RetNoRow
            /\ UNCHANGED yielded
    /\ lastCall' = "iter_scan"
    /\ UNCHANGED <<hostRow, hostRowid, catalog, branch,
                   rowVars, qualVars, codecVars>>

\* end_scan of the reference connector
EndScan ==
    /\ conn.state \in {"Scanning", "Exhausted"}
    /\ conn' = [conn EXCEPT !.state = "Closed"]
    /\ lastCall' = "end_scan"
    /\ UNCHANGED <<yielded, lastRet, hostRow, hostRowid, catalog, branch,
                   rowVars, qualVars, codecVars>>

\* fn re_scan(&mut self) {}
ReScan_Rewind ==
    /\ conn' = [conn EXCEPT !.pos = 0,
                            !.state = IF conn.state \in {"Scanning", "Exhausted"}
                                      THEN "Scanning" ELSE conn.state]
    /\ lastCall' = "re_scan"
    /\ UNCHANGED <<yielded, lastRet, hostRow, hostRowid, catalog, branch,
                   rowVars, qualVars, codecVars>>

ReScan ==
    /\ lastCall' = "re_scan"
    /\ UNCHANGED <<conn, yielded, lastRet, hostRow, hostRowid, catalog, branch,
                   rowVars, qualVars, codecVars>>

\* fn begin_modify(&mut self, _options: &HashMap<String, String>) {}
BeginModify ==
    /\ lastCall' = "begin_modify"
    /\ UNCHANGED <<conn, yielded, lastRet, hostRow, hostRowid, catalog, branch,
                   rowVars, qualVars, codecVars>>

\* fn insert(&mut self, _row: &Row) {}
Insert_Store ==
    /\ Len(conn.rows) <= MaxRows
    /\ conn' = [conn EXCEPT !.rows = Append(conn.rows, hostRow)]
    /\ lastCall' = "insert"
    /\ UNCHANGED <<yielded, lastRet, hostRow, hostRowid, catalog, branch,
                   rowVars, qualVars, codecVars>>

Insert ==
    /\ lastCall' = "insert"
    /\ UNCHANGED <<conn, yielded, lastRet, hostRow, hostRowid, catalog, branch,
                   rowVars, qualVars, codecVars>>

\* fn update(&mut self, _rowid: &Cell, _new_row: &Row) {}
Update ==
    /\ lastCall' = "update"
    /\ UNCHANGED <<conn, yielded, lastRet, hostRow, hostRowid, catalog, branch,
                   rowVars, qualVars, codecVars>>

\* fn delete(&mut self, _rowid: &Cell) {}
Delete ==
    /\ lastCall' = "delete"
    /\ UNCHANGED <<conn, yielded, lastRet, hostRow, hostRowid, catalog, branch,
                   rowVars, qualVars, codecVars>>

\* fn end_modify(&mut self) {}
EndModify ==
    /\ lastCall' = "end_modify"
    /\ UNCHANGED <<conn, yielded, lastRet, hostRow, hostRowid, catalog, branch,
                   rowVars, qualVars, codecVars>>

\* The host builds the next row and rowid it will pass
HostPrepare(r, id) ==
    /\ hostRow' = r
    /\ hostRowid' = id
    /\ lastCall' = "host"
    /\ UNCHANGED <<conn, yielded, lastRet, catalog, branch,
                   rowVars, qualVars, codecVars>>

\* validator(opt_list, cat), as documented at the trait
Validator(cat) ==
    /\ catalog' = cat
    /\ branch' = ValidatorMatch(cat)
    /\ lastCall' = "validator"
    /\ UNCHANGED <<conn, yielded, lastRet, hostRow, hostRowid,
                   rowVars, qualVars, codecVars>>

HostPrepareStep == \E r \in HostRows, id \in HostRowids : HostPrepare(r, id)
ValidatorStep == \E cat \in HostCatalogs : Validator(cat)

-----------------------------------------------------------------------------
(* Specifications *)

InitRow == RowInit /\ QualIdle /\ CodecIdle /\ FdwIdle

RowNext ==
    \/ PushStep
    \/ RetainStep

SpecRow == InitRow /\ [][RowNext]_vars

InitQual == QualInit /\ RowInit /\ CodecIdle /\ FdwIdle

QualNext == Deparse

SpecQual == InitQual /\ [][QualNext]_vars

InitCodec == CodecInit /\ RowInit /\ QualIdle /\ FdwIdle

CodecNext ==
    \/ EncodeStep
    \/ TakeRawStep
    \/ DecodeStep

SpecCodec == InitCodec /\ [][CodecNext]_vars

InitFdw == FdwInit /\ RowInit /\ QualIdle /\ CodecIdle

FdwNext ==
    \/ BeginScan
    \/ IterScan
    \/ ReScan
    \/ EndScan
    \/ BeginModify
    \/ Insert
    \/ Update
    \/ Delete
    \/ EndModify
    \/ HostPrepareStep
    \/ ValidatorStep

SpecFdw == InitFdw /\ [][FdwNext]_vars

-----------------------------------------------------------------------------
\* C1: after every push and every retain on a row built from Row::new(),
\* the number of column names equals the number of cells.
C1_LenInvariant == Len(cols) = Len(cells)

C1_Witness == rowOp = "retain" /\ Len(cols) >= 1 /\ Len(cols) < Len(origCols)

\* The index in 1..Len(mask) of the j-th TRUE of mask.
KeptIndex(mask, j) ==
    CHOOSE i \in 1..Len(mask) :
        mask[i] /\ Cardinality({k \in 1..i : mask[k]}) = j

KeptCount(mask) == Cardinality({k \in 1..Len(mask) : mask[k]})

\* C2: retain is mask-consistent: the i-th (name, cell) pair of the result is
\* the i-th pair of the original row for which the predicate returned true.
C2_MaskConsistent ==
    rowOp = "retain" =>
        /\ Len(cols) = KeptCount(keep)
        /\ Len(cells) = KeptCount(keep)
        /\ \A j \in 1..KeptCount(keep) :
              /\ cols[j] = origCols[KeptIndex(keep, j)]
              /\ cells[j] = origCells[KeptIndex(keep, j)]

C2_Witness ==
    /\ rowOp = "retain"
    /\ Len(origCols) = 3
    /\ keep = <<FALSE, TRUE, TRUE>>
    /\ origCells[1] # origCells[2]
    /\ origCols[2] # origCols[3]

-----------------------------------------------------------------------------
\* C3: deparse() of a predicate with use_or = true is the empty string,
\* whatever its field, operator and value (an Array included); it does not fail.
C3_UseOrEmpty ==
    (deparsed # NotCalled /\ qual.use_or) => deparsed = RetString(<<>>)

C3_Witness ==
    /\ deparsed # NotCalled
    /\ qual.use_or
    /\ qual.value.kind = "Array"
    /\ Len(qual.value.arr) = 2

DigitVal(ch) == CHOOSE d \in 0..9 : DigitChar(d) = ch
IsDigit(ch) == \E d \in 0..9 : DigitChar(d) = ch

\* The negated value of a run of decimal digits.
RECURSIVE NegValue(_)
NegValue(ds) ==
    IF ds = <<>> THEN 0
    ELSE NegValue(SubSeq(ds, 1, Len(ds) - 1)) * 10 - DigitVal(ds[Len(ds)])

\* lit is the plain decimal rendering of n: an optional minus sign, then
\* digits with no leading zero (a lone "0" for zero), of value n.
IsPlainInt(lit, n) ==
    LET neg == lit # <<>> /\ lit[1] = "-"
        ds == IF neg THEN Tail(lit) ELSE lit
    IN  /\ ds # <<>>
        /\ \A i \in 1..Len(ds) : IsDigit(ds[i])
        /\ Len(ds) > 1 => ds[1] # "0"
        /\ neg => ds # <<"0">>
        /\ neg <=> n < 0
        /\ NegValue(ds) = (IF neg THEN n ELSE 0 - n)

LiteralOf(c, lit) ==
    CASE c.tag = "String" ->
            /\ Len(lit) = Len(c.v) + 2
            /\ lit[1] = "'"
            /\ lit[Len(lit)] = "'"
            /\ SubSeq(lit, 2, Len(lit) - 1) = c.v
      [] c.tag = "Bool" ->
            lit = (IF c.v THEN <<"t", "r", "u", "e">> ELSE <<"f", "a", "l", "s", "e">>)
      [] c.tag \in {"I8", "I16", "I32"} -> IsPlainInt(lit, c.v)
      [] c.tag = "I64" -> IsPlainInt(lit, SignedLE(c.v))
      [] OTHER -> lit # <<>>

IdEqualsOne ==
    [field |-> <<"i", "d">>, operator |-> <<"=">>,
     value |-> ValueCell(Cell("I32", 1)), use_or |-> FALSE]

\* C4: for use_or = false and value = Cell(c), deparse() returns field,
\* one space, operator, one space, and the literal of c: a String in single
\* quotes, a Bool or an integer in its plain rendering; "id = 1" for the
\* example predicate.
C4_DeparseCell ==
    (deparsed # NotCalled /\ ~qual.use_or /\ qual.value.kind = "Cell") =>
        LET s == deparsed.s
            nf == Len(qual.field)
            no == Len(qual.operator)
        IN  /\ deparsed.kind = "String"
            /\ Len(s) >= nf + no + 2
            /\ SubSeq(s, 1, nf) = qual.field
            /\ s[nf + 1] = " "
            /\ SubSeq(s, nf + 2, nf + 1 + no) = qual.operator
            /\ s[nf + no + 2] = " "
            /\ LiteralOf(qual.value.cell, SubSeq(s, nf + no + 3, Len(s)))
            /\ qual = IdEqualsOne => s = <<"i", "d", " ", "=", " ", "1">>

C4_Witness ==
    /\ deparsed.kind = "String"
    /\ ~qual.use_or
    /\ qual.value = ValueCell(Cell("String", <<"a", "'">>))

\* C10: deparse() of a predicate with use_or = false and an Array value
\* returns no string: it panics, for every field, operator and array, the
\* empty array included.
C10_ArrayPanics ==
    (deparsed # NotCalled /\ ~qual.use_or /\ qual.value.kind = "Array") =>
        deparsed = Panic

C10_Witness ==
    /\ deparsed = Panic
    /\ ~qual.use_or
    /\ qual.value = ValueArray(<<>>)

-----------------------------------------------------------------------------
\* The declared type identifier of each Cell variant.
TypeOfVariant(tag) ==
    CASE tag = "Bool" -> "BOOLOID"
      [] tag = "I8" -> "CHAROID"
      [] tag = "I16" -> "INT2OID"
      [] tag = "I32" -> "INT4OID"
      [] tag = "I64" -> "INT8OID"
      [] tag = "F32" -> "FLOAT4OID"
      [] tag = "F64" -> "FLOAT8OID"
      [] tag = "String" -> "TEXTOID"
      [] tag = "Date" -> "DATEOID"
      [] tag = "Timestamp" -> "TIMESTAMPOID"
      [] tag = "Json" -> "JSONBOID"

\* datum is a value of the declared type t: any word for a by-value type, a
\* pointer to a live object of the type for text and jsonb.
DatumOfType(t) ==
    /\ t = "TEXTOID" => ValidPtr(heap, datum, "text")
    /\ t = "JSONBOID" => ValidPtr(heap, datum, "jsonb")

\* C5 (as claimed): from_polymorphic_datum returns None exactly when is_null
\* is true, and Some(cell) for every non-null raw value, whatever the type.
C5_NoneIffNull ==
    decoded # NotDecoded => (decoded = RetNone <=> isNull)

\* C5 (amended): from_polymorphic_datum returns None exactly when is_null is
\* true or the type identifier is none of the eleven the match names; for a
\* non-null datum of one of those types it returns Some(cell) of the variant
\* of that type.
C5_NoneIffNullOrUnmatched ==
    decoded # NotDecoded =>
        /\ decoded = RetNone <=> (isNull \/ typoid \notin MatchedOids)
        /\ (~isNull /\ typoid \in MatchedOids /\ DatumOfType(typoid)) =>
              /\ decoded.kind = "Some"
              /\ TypeOfVariant(decoded.cell.tag) = typoid

C5_Witness ==
    /\ decoded = RetNone
    /\ ~isNull
    /\ typoid = "VARCHAROID"
    /\ datumSrc = Cell("String", <<"a">>)

\* C6: decoding the encoding of a cell under the declared type identifier
\* of its variant yields Some of the same variant and payload.
C6_RoundTrip ==
    (/\ decoded # NotDecoded
     /\ datumSrc # RawSrc
     /\ ~isNull
     /\ typoid = TypeOfVariant(datumSrc.tag)) => decoded = RetSome(datumSrc)

C6_Witness ==
    /\ decoded = RetSome(Cell("Json", JsonNumber(-12)))
    /\ datumSrc = Cell("Json", JsonNumber(-12))
    /\ Len(heap) = 2
    /\ heap[1].kind = "text"

-----------------------------------------------------------------------------
\* C7 (as claimed): the interface defines four well-known catalog
\* identifiers, pairwise distinct, one for each catalog kind a validator call
\* can concern, so a validator tells every kind apart by the constants.
C7_FourIdentifiers ==
    /\ Cardinality(WellKnownCatalogIds) = 4
    /\ (lastCall = "validator" /\ catalog.some) => branch # "default"

\* C7 (amended): the interface defines three well-known catalog identifiers,
\* pairwise distinct, for the wrapper, server and table definitions; a
\* validator matching on them takes the arm of the catalog it received, and
\* any other catalog (the user mapping's) reaches only the catch-all arm.
C7_ThreeIdentifiers ==
    /\ Cardinality(WellKnownCatalogIds) = 3
    /\ lastCall = "validator" =>
          /\ branch = "wrapper" <=> catalog = SomeOid(FOREIGN_DATA_WRAPPER_RELATION_ID)
          /\ branch = "server" <=> catalog = SomeOid(FOREIGN_SERVER_RELATION_ID)
          /\ branch = "table" <=> catalog = SomeOid(FOREIGN_TABLE_RELATION_ID)
          /\ branch = "default" <=>
                (catalog.some /\ catalog.oid \notin WellKnownCatalogIds)

C7_Witness ==
    /\ lastCall = "validator"
    /\ branch = "default"
    /\ catalog.some
    /\ catalog.oid \notin WellKnownCatalogIds

DefaultNoOps == {"re_scan", "begin_modify", "insert", "update", "delete", "end_modify"}

\* C8: in a connector that does not override them, re_scan, begin_modify,
\* insert, update, delete and end_modify do nothing: a call of any of them
\* leaves the connector's rows, scan position and state, the rows it has
\* yielded, and the row and rowid passed in as they were.
C8_DefaultsDoNothing ==
    [][lastCall' \in DefaultNoOps =>
          /\ conn' = conn
          /\ yielded' = yielded
          /\ hostRow' = hostRow
          /\ hostRowid' = hostRowid]_vars

C8_Witness ==
    /\ lastCall = "insert"
    /\ conn.state = "Scanning"
    /\ conn.pos = 1
    /\ Len(conn.rows) = 3

\* C9 (as claimed): re_scan on a connector that is Scanning or Exhausted
\* puts it in the Scanning state with the scan position at the beginning.
C9_ReScanRewinds ==
    [][(lastCall' = "re_scan" /\ conn.state \in {"Scanning", "Exhausted"}) =>
          (conn'.state = "Scanning" /\ conn'.pos = 0)]_vars

\* C9 (amended): re_scan, as the trait defines it, leaves a connector that
\* is Scanning or Exhausted in the state and at the scan position it had:
\* an Exhausted connector stays Exhausted and the rows yielded so far are
\* not yielded again.
C9_ReScanKeepsPosition ==
    [][(lastCall' = "re_scan" /\ conn.state \in {"Scanning", "Exhausted"}) =>
          (conn'.state = conn.state /\ conn'.pos = conn.pos)]_vars

C9_Witness ==
    /\ lastCall = "re_scan"
    /\ conn.state = "Exhausted"
    /\ conn.pos = 2
    /\ Len(yielded) = 2

====
